---- MODULE Spec2Model ----
(***************************************************************************)
(* Lichess Country Counter (src/lcc.py).                                   *)
(*                                                                         *)
(* Spec        : execute_workflow up to the return of process_games:       *)
(*               verify_auth, SimpleTimeEstimator, the streaming loop of   *)
(*               process_games with process_game / extract_player_flag     *)
(*               and SimpleTimeEstimator.update.                           *)
(* SpecResults : process_results applied to a Counter built the way the    *)
(*               loop of process_games builds it.                          *)
(*                                                                         *)
(* Numbers: avg_opponent_rating is a Python float; it is modelled as an    *)
(* exact rational <<numerator, denominator>> in lowest terms.  The update  *)
(* benchmark (0.05, 0.10, ...) is kept in whole percent.                   *)
(***************************************************************************)
EXTENDS Integers, Sequences, FiniteSets

VARIABLES
    pc,                       \* position in execute_workflow / process_games
    is_quiet,                 \* args.quiet
    all,                      \* args.all
    max_games,                \* args.max_games
    return_games,             \* process_games(return_games=...)
    games_to_analyse,         \* SimpleTimeEstimator.games_to_analyse
    seconds_estimate,         \* SimpleTimeEstimator.seconds_estimate (rational)
    current_games_analysed,   \* SimpleTimeEstimator.current_games_analysed
    current_update_benchmark, \* SimpleTimeEstimator.current_update_benchmark, in percent
    stream_status,            \* response.status_code of the game stream request
    games_analysed_count,     \* enumerate(..., start=1) index of process_games
    avg_opponent_rating,      \* local of process_games (rational)
    results,                  \* local Counter of process_games: <<flag, count>> in insertion order
    games,                    \* local list of process_games
    ret,                      \* value returned by process_games
    number,                   \* args.number: <<>> when unset, <<n>> otherwise
    hide_unknown,             \* args.hide_unknown
    flag_counts,              \* value of process_results(...)
    exit_code,                \* argument of exit(), NoExit while running
    exc,                      \* uncaught exception that ended the run, "none" otherwise
    stdout,                   \* lines printed so far
    stream,                   \* lines the server has delivered so far, in order
    est_status,               \* status of the estimator's user lookup
    est_lookups,              \* requests issued by estimate_time_to_completion
    stream_requests,          \* requests issued for the game stream
    flag_lookups,             \* requests issued by extract_player_flag
    stream_exc                \* exception raised by response.iter_lines(), "none" otherwise

vars == <<pc, is_quiet, all, max_games, return_games, games_to_analyse,
          seconds_estimate, current_games_analysed, current_update_benchmark,
          stream_status, games_analysed_count, avg_opponent_rating, results,
          games, ret, number, hide_unknown, flag_counts, exit_code, exc,
          stdout, stream, est_status, est_lookups, stream_requests,
          flag_lookups, stream_exc>>

----------------------------------------------------------------------------
\* Bounds of the model.
MaxLines == 3
MaxGames == 2
MaxFlags == 4
MaxN == 3

\* Program constants.
DefaultMaxGames == 50
BenchmarkStart == 5
BenchmarkIncrement == 5

\* Input domains.
StatusCodes == {200, 401, 404, 429, 500}
Ratings == {1500, 1800}
Flags == {"IL", "US"}
Unknown == "Unknown"
NoExit == 0 - 1

\* Responses of https://lichess.org/api/user/<opponent>: a profile with a
\* flag, a profile without one, a JSON error body, a body that is not JSON.
FlagResponses ==
    {[status |-> 200, body |-> b] : b \in Flags \cup {"no_flag"}}
    \cup {[status |-> 429, body |-> b] : b \in {"error_json", "not_json"}}

NoResponse == [status |-> 0, body |-> "none"]

\* Lines of a streamed body: game records and keep-alive empty lines on
\* success; the lines of an error body otherwise.
GameLines == {[kind |-> "game", rating |-> r, resp |-> f] : r \in Ratings, f \in FlagResponses}
EmptyLine == [kind |-> "empty", rating |-> 0, resp |-> NoResponse]
ErrorLines == {[kind |-> k, rating |-> 0, resp |-> NoResponse] : k \in {"error_json", "not_json"}}

LinesOf(status) == IF status = 200 THEN GameLines \cup {EmptyLine} ELSE ErrorLines \cup {EmptyLine}

----------------------------------------------------------------------------
\* Rational arithmetic of the running mean.
RECURSIVE GCD(_, _)
GCD(a, b) == IF b = 0 THEN a ELSE GCD(b, a % b)

Norm(p, q) == LET g == GCD(p, q) IN <<p \div g, q \div g>>

\* avg_opponent_rating += (value - avg_opponent_rating) / n
MeanUpdate(avg, value, n) == Norm(avg[1] * (n - 1) + value * avg[2], avg[2] * n)

\* Mutant of AddFlag: a flag seen again is set to 1 instead of incremented.
AddFlagResets(counter, flag) ==
    IF \E i \in 1..Len(counter) : counter[i][1] = flag
    THEN [i \in 1..Len(counter) |->
            IF counter[i][1] = flag THEN <<flag, 1>> ELSE counter[i]]
    ELSE Append(counter, <<flag, 1>>)

\* results[flag] = 1 if flag not in results else results[flag] += 1
AddFlag(counter, flag) ==
    IF \E i \in 1..Len(counter) : counter[i][1] = flag
    THEN [i \in 1..Len(counter) |->
            IF counter[i][1] = flag THEN <<flag, counter[i][2] + 1>> ELSE counter[i]]
    ELSE Append(counter, <<flag, 1>>)

\* extract_player_flag: the status code is never looked at; the body is
\* parsed, a body that is not JSON raises, a body without profile.flag
\* gives 'Unknown'.
ExtractPlayerFlag(resp) ==
    IF resp.body = "not_json" THEN [exc |-> "JSONDecodeError", flag |-> "none"]
    ELSE IF resp.body \in Flags THEN [exc |-> "none", flag |-> resp.body]
    ELSE [exc |-> "none", flag |-> Unknown]

\* process_game: the fields of the returned dictionary the aggregation reads.
ProcessGame(line) ==
    LET f == ExtractPlayerFlag(line.resp)
    IN  [exc |-> f.exc, opponent_rating |-> line.rating, opponent_flag |-> f.flag]

\* Mutant of ExitCode: a fixed failure code instead of the server's status.
ExitCodeOne(status) == 1

\* exit(e.response.status_code)
ExitCode(status) == status

\* Mutant of EstimatorReport: the hint is printed for every failed status.
EstimatorReportAlwaysHints(status, quiet) ==
    IF quiet THEN <<>>
    ELSE <<[msg |-> "verify_user_exists", arg |-> status],
           [msg |-> "response_text", arg |-> status]>>

\* What estimate_time_to_completion prints on a failed lookup.
EstimatorReport(status, quiet) ==
    IF quiet THEN <<>>
    ELSE (IF status = 404 THEN <<[msg |-> "verify_user_exists", arg |-> status]>> ELSE <<>>)
         \o <<[msg |-> "response_text", arg |-> status]>>

\* SimpleTimeEstimator.update: does this update reach the benchmark?
BenchmarkReached(bench, analysed, target) == analysed * 100 >= bench * target

\* Mutant of NextBenchmark: the benchmark is advanced until it lies above
\* the fraction analysed.
NextBenchmarkCatchesUp(bench, analysed, target) ==
    IF BenchmarkReached(bench, analysed, target)
    THEN (((analysed * 100) \div target) \div BenchmarkIncrement) * BenchmarkIncrement
         + BenchmarkIncrement
    ELSE bench

NextBenchmark(bench, analysed, target) ==
    IF BenchmarkReached(bench, analysed, target) THEN bench + BenchmarkIncrement ELSE bench

ProgressReport(bench, analysed, target, quiet) ==
    IF BenchmarkReached(bench, analysed, target) /\ ~quiet
    THEN <<[msg |-> "progress", arg |-> analysed]>>
    ELSE <<>>

----------------------------------------------------------------------------
NoReturn == [shape |-> "none", games |-> <<>>, results |-> <<>>, avg |-> <<0, 1>>]
NoOutput == [kind |-> "none", entries |-> <<>>]

Init ==
    /\ pc = "start"
    /\ is_quiet \in BOOLEAN
    /\ all \in BOOLEAN
    /\ max_games \in IF all THEN {DefaultMaxGames} ELSE (0..MaxGames) \cup {DefaultMaxGames}
    /\ return_games \in BOOLEAN
    /\ games_to_analyse = 0
    /\ seconds_estimate = <<0, 1>>
    /\ current_games_analysed = 0
    /\ current_update_benchmark = 0
    /\ stream_status = 0
    /\ games_analysed_count = 0
    /\ avg_opponent_rating = <<0, 1>>
    /\ results = <<>>
    /\ games = <<>>
    /\ ret = NoReturn
    /\ number = <<>>
    /\ hide_unknown = FALSE
    /\ flag_counts = NoOutput
    /\ exit_code = NoExit
    /\ exc = "none"
    /\ stdout = <<>>
    /\ stream = <<>>
    /\ est_status = 0
    /\ est_lookups = 0
    /\ stream_requests = 0
    /\ flag_lookups = 0
    /\ stream_exc = "none"

\* verify_auth
VerifyAuth ==
    /\ pc = "start"
    /\ \E status \in StatusCodes :
         IF status # 200
         THEN /\ stdout' = Append(stdout, [msg |-> "auth_error", arg |-> status])
              /\ exit_code' = status
              /\ pc' = "exited_auth"
         ELSE /\ pc' = "auth_ok"
              /\ UNCHANGED <<stdout, exit_code>>
    /\ UNCHANGED <<is_quiet, all, max_games, return_games, games_to_analyse,
                   seconds_estimate, current_games_analysed, current_update_benchmark,
                   stream_status, games_analysed_count, avg_opponent_rating, results,
                   games, ret, number, hide_unknown, flag_counts, exc,
                   stream, est_status, est_lookups, stream_requests,
                   flag_lookups, stream_exc>>

\* SimpleTimeEstimator.__init__ with estimate_time_to_completion
Estimate ==
    /\ pc = "auth_ok"
    /\ \E status \in StatusCodes, count_all \in 0..MaxGames :
         /\ est_status' = status
         /\ est_lookups' = est_lookups + 1
         /\ IF status = 200
            THEN LET target == IF all THEN count_all ELSE max_games
                 IN  /\ games_to_analyse' = target
                     /\ seconds_estimate' = Norm(3 * target, 10)
                     /\ current_update_benchmark' = BenchmarkStart
                     /\ pc' = "estimated"
                     /\ UNCHANGED <<stdout, exit_code>>
            ELSE /\ stdout' = stdout \o EstimatorReport(status, is_quiet)
                 /\ exit_code' = ExitCode(status)
                 /\ pc' = "exited_estimator"
                 /\ UNCHANGED <<games_to_analyse, seconds_estimate, current_update_benchmark>>
    /\ UNCHANGED <<is_quiet, all, max_games, return_games, current_games_analysed,
                   stream_status, games_analysed_count, avg_opponent_rating, results,
                   games, ret, number, hide_unknown, flag_counts, exc,
                   stream, stream_requests, flag_lookups, stream_exc>>

\* execute_workflow: `if estimator.seconds_estimate:` is false, nothing runs
SkipRun ==
    /\ pc = "estimated"
    /\ seconds_estimate[1] = 0
    /\ pc' = "done"
    /\ UNCHANGED <<is_quiet, all, max_games, return_games, games_to_analyse,
                   seconds_estimate, current_games_analysed, current_update_benchmark,
                   stream_status, games_analysed_count, avg_opponent_rating, results,
                   games, ret, number, hide_unknown, flag_counts, exit_code, exc,
                   stdout, stream, est_status, est_lookups, stream_requests,
                   flag_lookups, stream_exc>>

\* execute_workflow prints the estimate and calls process_games, which opens
\* the stream and initialises its aggregates
OpenStream ==
    /\ pc = "estimated"
    /\ seconds_estimate[1] # 0
    /\ \E status \in StatusCodes : stream_status' = status
    /\ stream_requests' = stream_requests + 1
    /\ stdout' = IF is_quiet THEN stdout
                 ELSE Append(stdout, [msg |-> "loading", arg |-> games_to_analyse])
    /\ avg_opponent_rating' = <<0, 1>>
    /\ results' = <<>>
    /\ games' = <<>>
    /\ pc' = "streaming"
    /\ UNCHANGED <<is_quiet, all, max_games, return_games, games_to_analyse,
                   seconds_estimate, current_games_analysed, current_update_benchmark,
                   games_analysed_count, ret, number, hide_unknown, flag_counts,
                   exit_code, exc, stream, est_status, est_lookups,
                   flag_lookups, stream_exc>>

\* Exceptions response.iter_lines() can end the stream with: the one the
\* handler of process_games names, and the one an interrupted chunked body
\* is reported with.
StreamExceptions == {"HTTPError", "ChunkedEncodingError"}

\* What process_games returns at the end of the stream.
NormalReturn(with_games, g, r, avg) ==
    IF with_games
    THEN [shape |-> "triple", games |-> g, results |-> r, avg |-> avg]
    ELSE [shape |-> "pair", games |-> <<>>, results |-> r, avg |-> avg]

\* What process_games returns from `except requests.HTTPError`.
HandlerReturn(with_games, g, r, avg) ==
    [shape |-> "pair", games |-> <<>>, results |-> r, avg |-> avg]

\* The exception one line raises before the aggregates are touched:
\* json.loads on a body that is not JSON, game['players'] on a JSON error
\* body, the flag lookup of process_game.
LineException(line) ==
    IF line.kind = "not_json" THEN "JSONDecodeError"
    ELSE IF line.kind = "error_json" THEN "KeyError"
    ELSE IF line.kind = "game" THEN ProcessGame(line).exc
    ELSE "none"

\* One iteration of `for games_analysed_count, raw_game_data in enumerate(...)`
LoopBody ==
    /\ pc = "streaming"
    /\ games_analysed_count < MaxLines
    /\ \E line \in LinesOf(stream_status) :
         LET n == games_analysed_count + 1
             game_data == ProcessGame(line)
             raised == LineException(line)
             counted == line.kind = "game" /\ raised = "none"
         IN  /\ games_analysed_count' = n
             /\ stream' = Append(stream, line)
             /\ flag_lookups' = IF line.kind = "game" THEN flag_lookups + 1 ELSE flag_lookups
             /\ exc' = raised
             /\ pc' = IF raised = "none" THEN "streaming" ELSE "raised"
             /\ avg_opponent_rating' =
                  IF counted
                  THEN MeanUpdate(avg_opponent_rating, game_data.opponent_rating, n)
                  ELSE avg_opponent_rating
             /\ results' = IF counted THEN AddFlag(results, game_data.opponent_flag) ELSE results
             /\ games' = IF counted /\ return_games
                         THEN Append(games, [opponent_rating |-> game_data.opponent_rating,
                                             opponent_flag |-> game_data.opponent_flag])
                         ELSE games
             /\ IF raised = "none"
                THEN /\ current_games_analysed' = n
                     /\ current_update_benchmark' =
                          NextBenchmark(current_update_benchmark, n, games_to_analyse)
                     /\ stdout' = stdout \o ProgressReport(current_update_benchmark, n,
                                                           games_to_analyse, is_quiet)
                ELSE UNCHANGED <<current_games_analysed, current_update_benchmark, stdout>>
    /\ UNCHANGED <<is_quiet, all, max_games, return_games, games_to_analyse,
                   seconds_estimate, stream_status, ret, number, hide_unknown,
                   flag_counts, exit_code, est_status, est_lookups,
                   stream_requests, stream_exc>>

\* The stream ends: process_games returns its aggregates
StreamEnd ==
    /\ pc = "streaming"
    /\ ret' = NormalReturn(return_games, games, results, avg_opponent_rating)
    /\ pc' = "returned"
    /\ UNCHANGED <<is_quiet, all, max_games, return_games, games_to_analyse,
                   seconds_estimate, current_games_analysed, current_update_benchmark,
                   stream_status, games_analysed_count, avg_opponent_rating, results,
                   games, number, hide_unknown, flag_counts, exit_code, exc,
                   stdout, stream, est_status, est_lookups, stream_requests,
                   flag_lookups, stream_exc>>

\* response.iter_lines() raises: requests.HTTPError is caught by
\* process_games, anything else leaves it
StreamFail ==
    /\ pc = "streaming"
    /\ \E e \in StreamExceptions :
         /\ stream_exc' = e
         /\ IF e = "HTTPError"
            THEN /\ stdout' = IF is_quiet THEN stdout
                              ELSE stdout \o <<[msg |-> "analysed_before_error",
                                                arg |-> current_games_analysed],
                                               [msg |-> "response_text", arg |-> stream_status]>>
                 /\ ret' = HandlerReturn(return_games, games, results, avg_opponent_rating)
                 /\ pc' = "returned"
                 /\ UNCHANGED exc
            ELSE /\ exc' = e
                 /\ pc' = "raised"
                 /\ UNCHANGED <<stdout, ret>>
    /\ UNCHANGED <<is_quiet, all, max_games, return_games, games_to_analyse,
                   seconds_estimate, current_games_analysed, current_update_benchmark,
                   stream_status, games_analysed_count, avg_opponent_rating, results,
                   games, number, hide_unknown, flag_counts, exit_code,
                   stream, est_status, est_lookups, stream_requests,
                   flag_lookups>>

Next == VerifyAuth \/ Estimate \/ SkipRun \/ OpenStream \/ LoopBody \/ StreamEnd \/ StreamFail

Spec == Init /\ [][Next]_vars

----------------------------------------------------------------------------
\* process_results

Min(a, b) == IF a < b THEN a ELSE b

\* `if n:` on args.number
Truthy(n) == n # <<>> /\ n[1] # 0

\* Place entry e behind every entry whose count is at least its own.
InsertByCount(sorted, e) ==
    LET k == Cardinality({i \in 1..Len(sorted) : sorted[i][2] >= e[2]})
    IN  SubSeq(sorted, 1, k) \o <<e>> \o SubSeq(sorted, k + 1, Len(sorted))

\* sorted(counter.items(), key=itemgetter(1), reverse=True): stable
RECURSIVE SortByCount(_)
SortByCount(counter) ==
    IF counter = <<>> THEN <<>>
    ELSE InsertByCount(SortByCount(SubSeq(counter, 1, Len(counter) - 1)),
                       counter[Len(counter)])

\* Mutant of MostCommon: among equal counts the entry seen last comes first.
MostCommonLastSeenFirst(counter, n) ==
    LET RECURSIVE Sorted(_)
        Sorted(c) ==
            IF c = <<>> THEN <<>>
            ELSE LET rest == Sorted(SubSeq(c, 1, Len(c) - 1))
                     e == c[Len(c)]
                     k == Cardinality({i \in 1..Len(rest) : rest[i][2] > e[2]})
                 IN  SubSeq(rest, 1, k) \o <<e>> \o SubSeq(rest, k + 1, Len(rest))
    IN  IF n <= 0 THEN <<>> ELSE SubSeq(Sorted(counter), 1, Min(n, Len(counter)))

\* Counter.most_common(n) for an integer n: heapq.nlargest(n, items, key=count)
MostCommon(counter, n) ==
    IF n <= 0 THEN <<>> ELSE SubSeq(SortByCount(counter), 1, Min(n, Len(counter)))

\* {k: v for k, v in results.items() if k != 'Unknown'}
RemoveUnknown(counter) == SelectSeq(counter, LAMBDA e : e[1] # Unknown)

\* process_results(results, n, hide_unknown); most_common returns a list,
\* which has no items()
ProcessResultsOf(counter, n, hide) ==
    LET selected == IF Truthy(n)
                    THEN [kind |-> "list", entries |-> MostCommon(counter, n[1])]
                    ELSE [kind |-> "Counter", entries |-> counter]
    IN  IF hide
        THEN IF selected.kind = "list"
             THEN [kind |-> "AttributeError", entries |-> <<>>]
             ELSE [kind |-> "dict", entries |-> RemoveUnknown(selected.entries)]
        ELSE selected

\* The Counter the loop of process_games builds from a sequence of flags.
RECURSIVE CountFlags(_)
CountFlags(fs) ==
    IF fs = <<>> THEN <<>>
    ELSE AddFlag(CountFlags(SubSeq(fs, 1, Len(fs) - 1)), fs[Len(fs)])

FlagSeqs == UNION {[1..k -> Flags \cup {Unknown}] : k \in 0..MaxFlags}

Numbers == {<<>>} \cup {<<n>> : n \in (0 - 1)..MaxN}

InitResults ==
    /\ pc = "counted"
    /\ is_quiet = FALSE
    /\ all = FALSE
    /\ max_games = DefaultMaxGames
    /\ return_games = FALSE
    /\ games_to_analyse = DefaultMaxGames
    /\ seconds_estimate = Norm(3 * DefaultMaxGames, 10)
    /\ current_games_analysed = 0
    /\ current_update_benchmark = BenchmarkStart
    /\ stream_status = 200
    /\ games_analysed_count = 0
    /\ avg_opponent_rating = <<0, 1>>
    /\ \E fs \in FlagSeqs : results = CountFlags(fs)
    /\ games = <<>>
    /\ ret = NoReturn
    /\ number \in Numbers
    /\ hide_unknown \in BOOLEAN
    /\ flag_counts = NoOutput
    /\ exit_code = NoExit
    /\ exc = "none"
    /\ stdout = <<>>
    /\ stream = <<>>
    /\ est_status = 200
    /\ est_lookups = 1
    /\ stream_requests = 1
    /\ flag_lookups = 0
    /\ stream_exc = "none"

\* flag_counts = process_results(flag_counts, args.number, args.hide_unknown)
ProcessResults ==
    /\ pc = "counted"
    /\ flag_counts' = ProcessResultsOf(results, number, hide_unknown)
    /\ exc' = IF flag_counts'.kind = "AttributeError" THEN "AttributeError" ELSE "none"
    /\ pc' = IF flag_counts'.kind = "AttributeError" THEN "raised" ELSE "processed"
    /\ UNCHANGED <<is_quiet, all, max_games, return_games, games_to_analyse,
                   seconds_estimate, current_games_analysed, current_update_benchmark,
                   stream_status, games_analysed_count, avg_opponent_rating, results,
                   games, ret, number, hide_unknown, exit_code,
                   stdout, stream, est_status, est_lookups, stream_requests,
                   flag_lookups, stream_exc>>

NextResults == ProcessResults

SpecResults == InitResults /\ [][NextResults]_vars

----------------------------------------------------------------------------
\* Measures of the delivered stream and of a Counter, used by the properties.

IsGame(line) == line.kind = "game"

NumGames(lines) == Cardinality({i \in 1..Len(lines) : IsGame(lines[i])})

RECURSIVE SumRatings(_)
SumRatings(lines) ==
    IF lines = <<>> THEN 0
    ELSE (IF IsGame(lines[1]) THEN lines[1].rating ELSE 0) + SumRatings(Tail(lines))

RECURSIVE SumCounts(_)
SumCounts(counter) ==
    IF counter = <<>> THEN 0 ELSE counter[1][2] + SumCounts(Tail(counter))

CountOf(counter, flag) ==
    IF \E i \in 1..Len(counter) : counter[i][1] = flag
    THEN (CHOOSE e \in {counter[i] : i \in 1..Len(counter)} : e[1] = flag)[2]
    ELSE 0

NumWithoutFlag(lines) ==
    Cardinality({i \in 1..Len(lines) : IsGame(lines[i]) /\ lines[i].resp.body \notin Flags})

\* The records of the games of a stream, in stream order.
RECURSIVE GameRecords(_)
GameRecords(lines) ==
    IF lines = <<>> THEN <<>>
    ELSE (IF IsGame(lines[1])
          THEN <<[opponent_rating |-> lines[1].rating,
                  opponent_flag |-> IF lines[1].resp.body \in Flags
                                    THEN lines[1].resp.body ELSE Unknown]>>
          ELSE <<>>) \o GameRecords(Tail(lines))

\* avg is the arithmetic mean of the ratings of the games of lines
IsMeanOf(avg, lines) == avg[1] * NumGames(lines) = SumRatings(lines) * avg[2]

InLoopOrReturned == pc \in {"streaming", "returned"}

EstimatorFailed == est_lookups > 0 /\ est_status # 200

StreamFailed == stream_exc # "none" \/ (stream_requests > 0 /\ stream_status # 200)

Tags(out) == [i \in 1..Len(out) |-> out[i].msg]

PositionIn(counter, e) == CHOOSE j \in 1..Len(counter) : counter[j] = e

----------------------------------------------------------------------------
\* C1: after every processed game, and at the end of the stream, the running
\* mean equals the arithmetic mean of the opponent ratings of all games
\* processed so far, empty lines of the stream being skipped.
C1_RunningMeanIsMean ==
    (InLoopOrReturned /\ NumGames(stream) > 0)
        => /\ IsMeanOf(avg_opponent_rating, stream)
           /\ (pc = "returned" => ret.avg = avg_opponent_rating)

\* C2: when the game stream fails (non-success status, or interrupted) after
\* K games, process_games returns the partial aggregate of exactly those K
\* games and does not end in an uncaught exception.
C2_PartialAggregateReturned ==
    (StreamFailed /\ pc \in {"returned", "raised"})
        => /\ pc = "returned"
           /\ SumCounts(ret.results) = NumGames(stream)
           /\ (NumGames(stream) > 0 => IsMeanOf(ret.avg, stream))

\* C3: with a non-zero n and hide_unknown set, process_results returns a
\* mapping: the top-n entries with the entry keyed "Unknown" removed; on
\* {Unknown: 2, IL: 1} with n = 1 that mapping is empty.
C3_TopNThenHideUnknown ==
    (pc # "counted" /\ Truthy(number) /\ hide_unknown)
        => /\ flag_counts.kind = "dict"
           /\ flag_counts.entries = RemoveUnknown(MostCommon(results, number[1]))
           /\ (results = <<<<Unknown, 2>>, <<"IL", 1>>>> /\ number = <<1>>
                 => flag_counts.entries = <<>>)

\* The entries kept are entries of the Counter, no key twice, and every
\* entry left out has a smaller count than every entry kept, or the same
\* count and a later place in the Counter.
KeepsHighestFirstSeen(counter, out) ==
    /\ \A i \in 1..Len(out) : \E j \in 1..Len(counter) : counter[j] = out[i]
    /\ \A i, j \in 1..Len(out) : i # j => out[i][1] # out[j][1]
    /\ \A j \in 1..Len(counter) :
         (\A i \in 1..Len(out) : out[i] # counter[j])
            => \A i \in 1..Len(out) :
                 \/ out[i][2] > counter[j][2]
                 \/ out[i][2] = counter[j][2] /\ PositionIn(counter, out[i]) < j

\* C4 as stated: with a non-zero n and hide_unknown unset, process_results
\* keeps exactly min(n, number of distinct flags) entries, those of highest
\* count, first-seen winning ties; with n unset or 0 every entry is kept.
C4_TopNAsStated ==
    (pc = "processed" /\ ~hide_unknown)
        => IF Truthy(number)
           THEN /\ Len(flag_counts.entries) = Min(number[1], Len(results))
                /\ KeepsHighestFirstSeen(results, flag_counts.entries)
           ELSE flag_counts.entries = results

\* C4: with a positive n and hide_unknown unset, process_results keeps
\* exactly min(n, number of distinct flags) entries, those of highest count,
\* first-seen winning ties; with a negative n it keeps no entry; with n
\* unset or 0 every entry is kept.
C4_TopN ==
    (pc = "processed" /\ ~hide_unknown)
        => IF Truthy(number)
           THEN /\ Len(flag_counts.entries) =
                     (IF number[1] > 0 THEN Min(number[1], Len(results)) ELSE 0)
                /\ KeepsHighestFirstSeen(results, flag_counts.entries)
           ELSE flag_counts.entries = results

\* A tie between an entry kept and an entry dropped.
C4_Witness ==
    /\ pc = "processed"
    /\ ~hide_unknown
    /\ Truthy(number)
    /\ Len(flag_counts.entries) < Len(results)
    /\ \E i \in 1..Len(flag_counts.entries), j \in 1..Len(results) :
         /\ \A k \in 1..Len(flag_counts.entries) : flag_counts.entries[k] # results[j]
         /\ flag_counts.entries[i][2] = results[j][2]

\* C5: a flag lookup that receives a non-success response aborts the run:
\* its game is counted under no flag and it is the last line processed.
C5_FailedLookupAborts ==
    \A i \in 1..Len(stream) :
        (IsGame(stream[i]) /\ stream[i].resp.status # 200)
            => /\ pc = "raised"
               /\ i = Len(stream)
               /\ SumCounts(results) = NumGames(SubSeq(stream, 1, i - 1))

\* C6: when the estimator's user lookup returns a non-success status the
\* process has exited with that status after exactly one lookup, quiet or
\* not, and no game-stream request and no flag lookup has been issued.
C6_EstimatorFailureExits ==
    EstimatorFailed
        => /\ pc = "exited_estimator"
           /\ exit_code = est_status
           /\ est_lookups = 1
           /\ stream_requests = 0
           /\ flag_lookups = 0

C6_Witness ==
    /\ pc = "exited_estimator"
    /\ is_quiet
    /\ est_status = 429
    /\ exit_code = 429

\* C7: during and after the loop of process_games the counts of the
\* frequency mapping sum to the number of games processed, the games whose
\* opponent has no flag being counted under "Unknown"; the mapping returned
\* at the end of a stream of N games sums to N.
C7_CountsSumToGames ==
    InLoopOrReturned
        => /\ SumCounts(results) = NumGames(stream)
           /\ CountOf(results, Unknown) = NumWithoutFlag(stream)
           /\ (pc = "returned" => SumCounts(ret.results) = NumGames(stream))

C7_Witness ==
    /\ pc = "returned"
    /\ stream_exc = "none"
    /\ NumGames(stream) = 3
    /\ CountOf(ret.results, Unknown) = 2
    /\ Len(ret.results) = 2

C9_GamesReturnedOnEveryPath ==
    (pc = "returned" /\ return_games)
        => /\ ret.shape = "triple"
           /\ ret.games = GameRecords(stream)
           /\ Len(ret.games) = SumCounts(ret.results)

\* One update of the estimator inside the loop.
UpdateStep ==
    (pc = "streaming" /\ pc' = "streaming" /\ games_analysed_count' # games_analysed_count)
        => LET reached == games_analysed_count' * 100
                             >= current_update_benchmark * games_to_analyse
           IN  /\ current_games_analysed' = games_analysed_count'
               /\ reached => /\ current_update_benchmark'
                                  = current_update_benchmark + BenchmarkIncrement
                             /\ (is_quiet => stdout' = stdout)
                             /\ (~is_quiet =>
                                   stdout' = Append(stdout, [msg |-> "progress",
                                                             arg |-> games_analysed_count']))
               /\ ~reached => /\ current_update_benchmark' = current_update_benchmark
                              /\ stdout' = stdout

\* C10: the benchmark starts at 5%; an update whose fraction is at or above
\* the benchmark reports (unless quiet) and advances the benchmark by one
\* increment of 5%, quiet or not; any other update reports nothing and
\* leaves the benchmark alone.
C10_UpdateAdvancesOnce ==
    /\ [](pc = "estimated" => current_update_benchmark = BenchmarkStart)
    /\ [][UpdateStep]_vars

\* In quiet mode, the benchmark has advanced and still lies at or below the
\* fraction analysed.
C10_Witness ==
    /\ pc = "streaming"
    /\ is_quiet
    /\ current_update_benchmark >= 2 * BenchmarkIncrement
    /\ BenchmarkReached(current_update_benchmark, current_games_analysed, games_to_analyse)

====
